---- MODULE Spec2Model ----
(***************************************************************************)
(* A model of the Kafka wire client of src/src/main.rs: the varint codec,  *)
(* the length-prefixed framing, the two request builders, the two response *)
(* readers and the client that sequences them over one TcpStream.          *)
(***************************************************************************)
EXTENDS Integers, Sequences, FiniteSets, TLC

(***************************************************************************)
(* Byte buffers (Vec<u8>, &[u8]).  A buffer is its length and the map of   *)
(* its non-zero bytes, by 0-based index; every other byte is 0.  The       *)
(* representation is canonical (equal buffers are equal values) and lets a *)
(* buffer of a megabyte be a small value.                                   *)
(***************************************************************************)
EmptyBuf == [len |-> 0, nz |-> <<>>]

BufLen(b) == b.len

\* data[i], for 0 <= i < data.len()
At(b, i) == IF i \in DOMAIN b.nz THEN b.nz[i] ELSE 0

\* the buffer holding the bytes of the sequence s
FromSeq(s) ==
    [len |-> Len(s),
     nz  |-> [i \in {j - 1 : j \in {k \in 1..Len(s) : s[k] # 0}} |-> s[i + 1]]]

\* n zero bytes (vec![0u8; n])
Zeros(n) == [len |-> n, nz |-> <<>>]

\* a followed by b (extend_from_slice, or two writes one after the other)
Cat(a, b) ==
    [len |-> a.len + b.len,
     nz  |-> [i \in (DOMAIN a.nz) \cup {j + a.len : j \in DOMAIN b.nz} |->
                 IF i < a.len THEN a.nz[i] ELSE b.nz[i - a.len]]]

\* buffer.push(byte)
Push(b, byte) == Cat(b, FromSeq(<<byte>>))

\* the first k bytes of b (what read_exact puts in a buffer of k bytes)
Take(b, k) ==
    [len |-> k, nz |-> [i \in {j \in DOMAIN b.nz : j < k} |-> b.nz[i]]]

\* b without its first k bytes (what read_exact leaves in the stream)
Drop(b, k) ==
    [len |-> b.len - k,
     nz  |-> [i \in {j - k : j \in {x \in DOMAIN b.nz : x >= k}} |-> b.nz[i + k]]]

(***************************************************************************)
(* Fixed-width integers.  A u32 is its 32 bits, least significant first    *)
(* (u[1] is bit 0), so that shifts and ors are the machine's.              *)
(***************************************************************************)
RECURSIVE Bits(_, _)
\* the k low bits of the natural number n, least significant first
Bits(n, k) == IF k = 0 THEN <<>> ELSE <<n % 2>> \o Bits(n \div 2, k - 1)

\* n as u32, for 0 <= n < 2^31
U32(n) == Bits(n, 32)

\* a | b on u32
BitOr(a, b) == [i \in 1..32 |-> IF a[i] = 1 \/ b[i] = 1 THEN 1 ELSE 0]

\* a << s on u32, 0 <= s < 32: the bits shifted out are dropped
Shl(a, s) == [i \in 1..32 |-> IF i - s >= 1 THEN a[i - s] ELSE 0]

\* a >> s on u32
Shr(a, s) == [i \in 1..32 |-> IF i + s <= 32 THEN a[i + s] ELSE 0]

\* (a & 0x7F) as u8
Low7(a) == a[1] + 2 * a[2] + 4 * a[3] + 8 * a[4] + 16 * a[5] + 32 * a[6] + 64 * a[7]

IsZero(a) == \A i \in 1..32 : a[i] = 0

\* i32::from_be_bytes([b0, b1, b2, b3])
I32FromBe(b0, b1, b2, b3) ==
    (IF b0 >= 128 THEN b0 - 256 ELSE b0) * 16777216 + b1 * 65536 + b2 * 256 + b3

\* i16::from_be_bytes([b0, b1])
I16FromBe(b0, b1) == (IF b0 >= 128 THEN b0 - 256 ELSE b0) * 256 + b1

\* x.to_be_bytes() for x: i32
I32ToBe(x) ==
    <<(x \div 16777216) % 256, (x \div 65536) % 256, (x \div 256) % 256, x % 256>>

\* x.to_be_bytes() for x: i16
I16ToBe(x) == <<(x \div 256) % 256, x % 256>>

\* n as i16, for a length n: usize below 2^31
AsI16(n) == IF n % 65536 >= 32768 THEN (n % 65536) - 65536 ELSE n % 65536

(***************************************************************************)
(* KafkaError and the results of the operations.                           *)
(***************************************************************************)
\* An error carries its variant, the fixed part of its message and, in arg, the
\* numbers formatted into the message.
Ok == [variant |-> "Ok", msg |-> "", arg |-> <<>>]

IoError(kind) == [variant |-> "IoError", msg |-> kind, arg |-> <<>>]

ProtocolError(msg, arg) == [variant |-> "ProtocolError", msg |-> msg, arg |-> arg]

InvalidResponse(msg) == [variant |-> "InvalidResponse", msg |-> msg, arg |-> <<>>]

\* a panic of the thread that runs the client (index out of bounds, capacity
\* overflow, arithmetic overflow in a build with overflow checks)
Panic(msg) == [variant |-> "panic", msg |-> msg, arg |-> <<>>]

\* The failure names of the specification, as the code reports them.
IsCorrelationMismatch(r) == r.variant = "ProtocolError" /\ r.msg = "Correlation ID mismatch"

IsInvalidFrameSize(r) == r.variant = "ProtocolError" /\ r.msg = "Invalid response size"

IsTruncatedInput(r) == r.variant = "InvalidResponse"

IsVarintOverflow(r) == r.variant = "ProtocolError" /\ r.msg = "Varint too long"

IsServerError(r, code) ==
    r.variant = "ProtocolError" /\ r.msg = "Kafka error code" /\ r.arg = <<code>>

(***************************************************************************)
(* The varint codec.                                                       *)
(***************************************************************************)
RECURSIVE read_varint_loop_past_end(_, _, _, _)
\* read_varint_loop with the end of the data tested one byte late
read_varint_loop_past_end(data, offset, result, shift) ==
    IF offset > BufLen(data)
    THEN [err |-> InvalidResponse("Unexpected end of varint"), value |-> result,
          offset |-> offset]
    ELSE LET byte    == At(data, offset)
             offset1 == offset + 1
             result1 == BitOr(result, Shl(U32(byte % 128), shift))
         IN  IF (byte \div 128) % 2 = 0
             THEN [err |-> Ok, value |-> result1, offset |-> offset1]
             ELSE IF shift + 7 >= 32
                  THEN [err |-> ProtocolError("Varint too long", <<>>), value |-> result1,
                        offset |-> offset1]
                  ELSE read_varint_loop_past_end(data, offset1, result1, shift + 7)

RECURSIVE read_varint_loop_shift28(_, _, _, _)
\* read_varint_loop giving up once 28 bits are read
read_varint_loop_shift28(data, offset, result, shift) ==
    IF offset >= BufLen(data)
    THEN [err |-> InvalidResponse("Unexpected end of varint"), value |-> result,
          offset |-> offset]
    ELSE LET byte    == At(data, offset)
             offset1 == offset + 1
             result1 == BitOr(result, Shl(U32(byte % 128), shift))
         IN  IF (byte \div 128) % 2 = 0
             THEN [err |-> Ok, value |-> result1, offset |-> offset1]
             ELSE IF shift + 7 >= 28
                  THEN [err |-> ProtocolError("Varint too long", <<>>), value |-> result1,
                        offset |-> offset1]
                  ELSE read_varint_loop_shift28(data, offset1, result1, shift + 7)

RECURSIVE read_varint_loop(_, _, _, _)
\* the loop of read_varint, entered with the locals result and shift
read_varint_loop(data, offset, result, shift) ==
    IF offset >= BufLen(data)
    THEN [err |-> InvalidResponse("Unexpected end of varint"), value |-> result,
          offset |-> offset]
    ELSE LET byte    == At(data, offset)
             offset1 == offset + 1
             result1 == BitOr(result, Shl(U32(byte % 128), shift))
         IN  IF (byte \div 128) % 2 = 0
             THEN [err |-> Ok, value |-> result1, offset |-> offset1]
             ELSE IF shift + 7 >= 32
                  THEN [err |-> ProtocolError("Varint too long", <<>>), value |-> result1,
                        offset |-> offset1]
                  ELSE read_varint_loop(data, offset1, result1, shift + 7)

\* read_varint(data, &mut offset): the error (Ok for none), the value and the offset left
read_varint(data, offset) == read_varint_loop(data, offset, U32(0), 0)

RECURSIVE write_varint_shr8(_, _)
\* write_varint shifting the value by a whole byte
write_varint_shr8(buffer, value) ==
    LET value1 == Shr(value, 8)
        byte   == IF ~IsZero(value1) THEN Low7(value) + 128 ELSE Low7(value)
    IN  IF IsZero(value1)
        THEN Push(buffer, byte)
        ELSE write_varint_shr8(Push(buffer, byte), value1)

RECURSIVE write_varint(_, _)
\* write_varint(&mut buffer, value): the buffer after the call
write_varint(buffer, value) ==
    LET value1 == Shr(value, 7)
        byte   == IF ~IsZero(value1) THEN Low7(value) + 128 ELSE Low7(value)
    IN  IF IsZero(value1)
        THEN Push(buffer, byte)
        ELSE write_varint(Push(buffer, byte), value1)

(***************************************************************************)
(* Request building and framing.                                           *)
(***************************************************************************)
ApiKeyApiVersions == 18

ApiKeyMetadata == 3

ApiVersionsVersion == 3

MetadataVersion == 9

\* "rust-std-client".as_bytes()
ClientId == <<114, 117, 115, 116, 45, 115, 116, 100, 45, 99, 108, 105, 101, 110, 116>>

\* "test-topic".as_bytes(), the topic main asks for
TestTopic == <<116, 101, 115, 116, 45, 116, 111, 112, 105, 99>>

\* the header both requests start with: api key, api version, correlation id and
\* the client id as a string with a 2-byte length
RequestHeader(api_key, api_version, correlation_id, client_id) ==
    FromSeq(I16ToBe(api_key) \o I16ToBe(api_version) \o I32ToBe(correlation_id)
            \o I16ToBe(AsI16(Len(client_id))) \o client_id)

\* api_versions_request without the byte of the tagged fields
api_versions_request_untagged(correlation_id, client_id) ==
    RequestHeader(ApiKeyApiVersions, ApiVersionsVersion, correlation_id, client_id)

\* the request send_api_versions_request builds
api_versions_request(correlation_id, client_id) ==
    Push(RequestHeader(ApiKeyApiVersions, ApiVersionsVersion, correlation_id, client_id), 0)

RECURSIVE write_topics(_, _)
\* the loop over topics of send_metadata_request
write_topics(request, topics) ==
    IF topics = <<>>
    THEN request
    ELSE write_topics(Cat(write_varint(request, U32(Len(Head(topics)) + 1)),
                          FromSeq(Head(topics))),
                      Tail(topics))

\* metadata_request with the topic count written as it is
metadata_request_count(correlation_id, client_id, topics) ==
    LET header == RequestHeader(ApiKeyMetadata, MetadataVersion, correlation_id, client_id)
        named  == write_topics(write_varint(header, U32(Len(topics))), topics)
    IN  Cat(named, FromSeq(<<0, 0, 0, 0, 0>>))

\* the request send_metadata_request builds
metadata_request(correlation_id, client_id, topics) ==
    LET header == RequestHeader(ApiKeyMetadata, MetadataVersion, correlation_id, client_id)
        named  == write_topics(write_varint(header, U32(Len(topics) + 1)), topics)
    IN  Cat(named, FromSeq(<<0, 0, 0, 0, 0>>))

\* what the two write_all calls put on the connection: message_size, the length of
\* the request as i32 (a length below 2^31 is itself), big-endian, then the request
SendFrame(request) == Cat(FromSeq(I32ToBe(BufLen(request))), request)

(***************************************************************************)
(* Response parsing.                                                       *)
(***************************************************************************)
MaxResponseSize == 1048576

\* the entries the loop of read_api_versions_response prints at most
MaxParsedApis == 3

\* InvalidSize with the bound itself rejected
InvalidSize_ge(response_size) == response_size <= 0 \/ response_size >= MaxResponseSize

\* the size check of read_api_versions_response
InvalidSize(response_size) == response_size <= 0 \/ response_size > MaxResponseSize

RECURSIVE BitsValue(_, _)
\* the value of bits 0 .. k-1 of the u32 u
BitsValue(u, k) == IF k = 0 THEN 0 ELSE u[1] + 2 * BitsValue(Tail(u), k - 1)

\* u as i32
AsI32(u) == IF u[32] = 1 THEN BitsValue(u, 31) - 2147483647 - 1 ELSE BitsValue(u, 31)

Min(a, b) == IF a < b THEN a ELSE b

\* the correlation id in the first four bytes of a response
ResponseId(response_data) ==
    I32FromBe(At(response_data, 0), At(response_data, 1),
              At(response_data, 2), At(response_data, 3))

RECURSIVE parse_api_entries_tag_unread(_, _, _, _, _)
\* parse_api_entries going on right behind max_version, the tagged fields unread
parse_api_entries_tag_unread(response_data, offset, i, n, apis) ==
    IF i >= n \/ offset + 6 > BufLen(response_data)
    THEN [err |-> Ok, offset |-> offset, apis |-> apis]
    ELSE LET api_key     == I16FromBe(At(response_data, offset), At(response_data, offset + 1))
             min_version == I16FromBe(At(response_data, offset + 2), At(response_data, offset + 3))
             max_version == I16FromBe(At(response_data, offset + 4), At(response_data, offset + 5))
             entry       == [api_key |-> api_key, min_version |-> min_version,
                             max_version |-> max_version]
         IN  parse_api_entries_tag_unread(response_data, offset + 6, i + 1, n,
                                          Append(apis, entry))

RECURSIVE parse_api_entries_hard_stop(_, _, _, _, _)
\* parse_api_entries failing when fewer than 6 bytes are left for an entry
parse_api_entries_hard_stop(response_data, offset, i, n, apis) ==
    IF i >= n
    THEN [err |-> Ok, offset |-> offset, apis |-> apis]
    ELSE IF offset + 6 > BufLen(response_data)
    THEN [err |-> InvalidResponse("Response too short for entry"), offset |-> offset,
          apis |-> apis]
    ELSE LET api_key     == I16FromBe(At(response_data, offset), At(response_data, offset + 1))
             min_version == I16FromBe(At(response_data, offset + 2), At(response_data, offset + 3))
             max_version == I16FromBe(At(response_data, offset + 4), At(response_data, offset + 5))
             entry       == [api_key |-> api_key, min_version |-> min_version,
                             max_version |-> max_version]
             tagged      == read_varint(response_data, offset + 6)
         IN  IF tagged.err # Ok
             THEN [err |-> tagged.err, offset |-> tagged.offset, apis |-> Append(apis, entry)]
             ELSE parse_api_entries_hard_stop(response_data, tagged.offset, i + 1, n,
                                              Append(apis, entry))

RECURSIVE parse_api_entries(_, _, _, _, _)
\* the for loop of read_api_versions_response, entered at iteration i of n with the
\* entries printed so far
parse_api_entries(response_data, offset, i, n, apis) ==
    IF i >= n \/ offset + 6 > BufLen(response_data)
    THEN [err |-> Ok, offset |-> offset, apis |-> apis]
    ELSE LET api_key     == I16FromBe(At(response_data, offset), At(response_data, offset + 1))
             min_version == I16FromBe(At(response_data, offset + 2), At(response_data, offset + 3))
             max_version == I16FromBe(At(response_data, offset + 4), At(response_data, offset + 5))
             entry       == [api_key |-> api_key, min_version |-> min_version,
                             max_version |-> max_version]
             tagged      == read_varint(response_data, offset + 6)
         IN  IF tagged.err # Ok
             THEN [err |-> tagged.err, offset |-> tagged.offset, apis |-> Append(apis, entry)]
             ELSE parse_api_entries(response_data, tagged.offset, i + 1, n, Append(apis, entry))

\* parse_api_array with the count kept unsigned: 0 - 1 is 2^32 - 1
parse_api_array_unsigned(response_data, offset, checks) ==
    LET length == read_varint(response_data, offset)
    IN  IF length.err # Ok
        THEN [err |-> length.err, offset |-> length.offset, apis |-> <<>>]
        ELSE IF IsZero(length.value) \/ length.value[32] = 1
             THEN parse_api_entries(response_data, length.offset, 0, MaxParsedApis, <<>>)
             ELSE parse_api_entries(response_data, length.offset, 0,
                                    Min(MaxParsedApis, AsI32(length.value) - 1), <<>>)

\* the compact array of read_api_versions_response, from the array length on;
\* checks: whether the build panics on arithmetic overflow
parse_api_array(response_data, offset, checks) ==
    LET length == read_varint(response_data, offset)
        signed == AsI32(length.value)
    IN  IF length.err # Ok
        THEN [err |-> length.err, offset |-> length.offset, apis |-> <<>>]
        ELSE IF signed = -2147483647 - 1
             THEN IF checks
                  THEN [err |-> Panic("attempt to subtract with overflow"),
                        offset |-> length.offset, apis |-> <<>>]
                  ELSE parse_api_entries(response_data, length.offset, 0,
                                         Min(MaxParsedApis, 2147483647), <<>>)
             ELSE parse_api_entries(response_data, length.offset, 0,
                                    Min(MaxParsedApis, signed - 1), <<>>)

\* parse_api_versions going on to the array whatever the error code
parse_api_versions_any_code(response_data, expected_correlation_id, checks) ==
    LET got == ResponseId(response_data)
    IN  IF BufLen(response_data) < 4
        THEN [err |-> InvalidResponse("Response too short"), offset |-> 0, apis |-> <<>>]
        ELSE IF got # expected_correlation_id
        THEN [err |-> ProtocolError("Correlation ID mismatch", <<expected_correlation_id, got>>),
              offset |-> 4, apis |-> <<>>]
        ELSE IF BufLen(response_data) < 4 + 2
        THEN [err |-> InvalidResponse("Response too short for error code"),
              offset |-> 4, apis |-> <<>>]
        ELSE IF BufLen(response_data) < 6 + 1
        THEN [err |-> InvalidResponse("Response too short for array length"),
              offset |-> 6, apis |-> <<>>]
        ELSE parse_api_array(response_data, 6, checks)

\* read_api_versions_response once response_data is read: the error (Ok for none),
\* the offset left and the entries printed
parse_api_versions(response_data, expected_correlation_id, checks) ==
    LET got == ResponseId(response_data)
        error_code == I16FromBe(At(response_data, 4), At(response_data, 5))
    IN  IF BufLen(response_data) < 4
        THEN [err |-> InvalidResponse("Response too short"), offset |-> 0, apis |-> <<>>]
        ELSE IF got # expected_correlation_id
        THEN [err |-> ProtocolError("Correlation ID mismatch", <<expected_correlation_id, got>>),
              offset |-> 4, apis |-> <<>>]
        ELSE IF BufLen(response_data) < 4 + 2
        THEN [err |-> InvalidResponse("Response too short for error code"),
              offset |-> 4, apis |-> <<>>]
        ELSE IF error_code # 0
        THEN [err |-> ProtocolError("Kafka error code", <<error_code>>),
              offset |-> 6, apis |-> <<>>]
        ELSE IF BufLen(response_data) < 6 + 1
        THEN [err |-> InvalidResponse("Response too short for array length"),
              offset |-> 6, apis |-> <<>>]
        ELSE parse_api_array(response_data, 6, checks)

\* parse_metadata without the comparison of the correlation ids
parse_metadata_unchecked(response_data, expected_correlation_id) ==
    IF BufLen(response_data) < 4
    THEN [err |-> Panic("index out of bounds"), offset |-> 0, apis |-> <<>>]
    ELSE [err |-> Ok, offset |-> 4, apis |-> <<>>]

\* read_metadata_response once response_data is read
parse_metadata(response_data, expected_correlation_id) ==
    LET got == ResponseId(response_data)
    IN  IF BufLen(response_data) < 4
        THEN [err |-> Panic("index out of bounds"), offset |-> 0, apis |-> <<>>]
        ELSE IF got # expected_correlation_id
        THEN [err |-> ProtocolError("Correlation ID mismatch", <<>>),
              offset |-> 4, apis |-> <<>>]
        ELSE [err |-> Ok, offset |-> 4, apis |-> <<>>]

(***************************************************************************)
(* The client and its connection.                                          *)
(***************************************************************************)
VARIABLES
    correlation_id,          \* KafkaClient.correlation_id
    pc,                      \* where the client is: idle, in a blocking read, or aborted
    expected_correlation_id, \* the argument of the read in progress
    response_size,           \* the local response_size of the read in progress
    response_data,           \* the local response_data of the last read
    stream,                  \* the bytes of the server that read_exact has yet to take
    requests,                \* what the client wrote to the connection, in order
    sends,                   \* how many times the server wrote
    result,                  \* what the last operation returned
    prev_result,             \* what the operation before it returned
    parsed,                  \* the offset and the entries the last parse ended with
    steps,                   \* the steps the last operation ran, in order
    consumed,                \* the bytes the last operation took from the stream
    unanswered,              \* requests written whose operation took no whole frame
    call,                    \* the codec call under check
    ret                      \* and what it returned

client_vars == <<correlation_id, pc, expected_correlation_id, response_size, response_data>>

conn_vars == <<stream, requests, sends>>

obs_vars == <<result, prev_result, parsed, steps, consumed, unanswered>>

codec_vars == <<call, ret>>

vars == <<client_vars, conn_vars, obs_vars, codec_vars>>

\* the operations one client runs at most
MaxOps == 2

\* the writes of the server at most
MaxServerSends == 2

None == [variant |-> "none", msg |-> "", arg |-> <<>>]

Pending == [variant |-> "pending", msg |-> "", arg |-> <<>>]

NoParse == [err |-> None, offset |-> 0, apis |-> <<>>]

\* the topic lists a caller passes to send_metadata_request: the one of main
TopicLists == {<<TestTopic>>}

\* KafkaClient::connect: the client as constructed, its connection open and silent
InitClient ==
    /\ correlation_id = 1
    /\ pc = "idle"
    /\ expected_correlation_id = 0
    /\ response_size = 0
    /\ response_data = EmptyBuf
    /\ stream = EmptyBuf
    /\ requests = <<>>
    /\ sends = 0
    /\ result = None
    /\ prev_result = None
    /\ parsed = NoParse
    /\ steps = <<>>
    /\ consumed = EmptyBuf
    /\ unanswered = 0

\* no codec call, and no result yet (no value: a u32 is 32 bits)
NoCall == [fn |-> "none", value |-> <<>>, data |-> EmptyBuf, offset |-> 0]

NoRet == [buffer |-> EmptyBuf, out |-> [err |-> None, value |-> <<>>, offset |-> 0]]

InitCodec == call = NoCall /\ ret = NoRet

Init == InitClient /\ InitCodec

\* next_correlation_id incrementing before it reads the counter
next_correlation_id_pre(counter) == [id |-> counter + 1, counter |-> counter + 1]

\* next_correlation_id: the id returned and the counter after the call; i32 wraps
\* at 2^31 - 1 in a build without overflow checks, which MaxOps never reaches
next_correlation_id(counter) == [id |-> counter, counter |-> counter + 1]

\* Return with a failed read or write tried again instead of returned
Return_retry(r) ==
    /\ result' = r
    /\ pc' = IF r.variant = "panic" THEN "aborted"
             ELSE IF r.variant = "IoError" THEN pc ELSE "idle"

\* an operation returns r
Return(r) ==
    /\ result' = r
    /\ pc' = IF r.variant = "panic" THEN "aborted" ELSE "idle"

\* an operation starts: the caller holds the result of the one before
Begin(kind, request, wrote) ==
    /\ pc = "idle"
    /\ Len(requests) < MaxOps
    /\ correlation_id' = next_correlation_id(correlation_id).counter
    /\ requests' = Append(requests, [kind |-> kind, id |-> next_correlation_id(correlation_id).id,
                                     frame |-> SendFrame(request), complete |-> wrote])
    /\ prev_result' = result
    /\ steps' = <<"allocate", "build", "send">>
    /\ consumed' = EmptyBuf
    /\ parsed' = NoParse
    /\ unanswered' = IF wrote THEN unanswered + 1 ELSE unanswered
    /\ response_size' = 0
    /\ response_data' = EmptyBuf
    /\ UNCHANGED <<stream, sends, codec_vars>>

\* send_api_versions_request up to its call of read_api_versions_response: the
\* writes succeed, or one of them fails and the operation returns the error
send_api_versions_request ==
    LET request == api_versions_request(next_correlation_id(correlation_id).id, ClientId)
    IN  \/ /\ Begin("ApiVersions", request, TRUE)
            /\ expected_correlation_id' = next_correlation_id(correlation_id).id
            /\ pc' = "api_size"
            /\ result' = Pending
        \/ /\ Begin("ApiVersions", request, FALSE)
            /\ Return(IoError("write"))
            /\ UNCHANGED expected_correlation_id

\* send_metadata_request up to its call of read_metadata_response
send_metadata_request ==
    \E topics \in TopicLists :
        LET request == metadata_request(next_correlation_id(correlation_id).id, ClientId, topics)
        IN  \/ /\ Begin("Metadata", request, TRUE)
                /\ expected_correlation_id' = next_correlation_id(correlation_id).id
                /\ pc' = "meta_size"
                /\ result' = Pending
            \/ /\ Begin("Metadata", request, FALSE)
                /\ Return(IoError("write"))
                /\ UNCHANGED expected_correlation_id

\* the first k bytes of the stream, read by read_exact
ReadExact(k) ==
    /\ BufLen(stream) >= k
    /\ stream' = Drop(stream, k)
    /\ consumed' = Cat(consumed, Take(stream, k))

\* the size read from the four bytes at the head of the stream
SizeRead == I32FromBe(At(stream, 0), At(stream, 1), At(stream, 2), At(stream, 3))

\* read_api_versions_response, from its start to the read of response_data
read_api_versions_size ==
    /\ pc = "api_size"
    /\ ReadExact(4)
    /\ response_size' = SizeRead
    /\ steps' = Append(steps, "receive")
    /\ IF InvalidSize(SizeRead)
       THEN Return(ProtocolError("Invalid response size", <<SizeRead>>))
       ELSE pc' = "api_payload" /\ UNCHANGED result
    /\ UNCHANGED <<correlation_id, expected_correlation_id, response_data, requests, sends,
                   prev_result, parsed, unanswered, codec_vars>>

\* read_api_versions_response, from the read of response_data to its return
read_api_versions_payload ==
    /\ pc = "api_payload"
    /\ ReadExact(response_size)
    /\ response_data' = Take(stream, response_size)
    /\ steps' = Append(steps, "parse")
    /\ unanswered' = IF unanswered > 0 THEN unanswered - 1 ELSE 0
    /\ \E checks \in BOOLEAN :
           /\ parsed' = parse_api_versions(response_data', expected_correlation_id, checks)
           /\ Return(parsed'.err)
    /\ UNCHANGED <<correlation_id, expected_correlation_id, response_size, requests, sends,
                   prev_result, codec_vars>>

\* read_metadata_response, from its start to the read of response_data: the size
\* is not checked, and the allocation of a negative size as usize panics
read_metadata_size ==
    /\ pc = "meta_size"
    /\ ReadExact(4)
    /\ response_size' = SizeRead
    /\ steps' = Append(steps, "receive")
    /\ IF SizeRead < 0
       THEN Return(Panic("capacity overflow"))
       ELSE pc' = "meta_payload" /\ UNCHANGED result
    /\ UNCHANGED <<correlation_id, expected_correlation_id, response_data, requests, sends,
                   prev_result, parsed, unanswered, codec_vars>>

\* read_metadata_payload comparing the correlation id as soon as its four bytes
\* are read, and returning a mismatch with the rest of the payload unread
read_metadata_payload_early ==
    /\ pc = "meta_payload"
    /\ BufLen(stream) >= response_size
    /\ LET early == response_size >= 4 /\ ResponseId(stream) # expected_correlation_id
           taken == IF early THEN 4 ELSE response_size
       IN  /\ stream' = Drop(stream, taken)
           /\ consumed' = Cat(consumed, Take(stream, taken))
    /\ response_data' = Take(stream, response_size)
    /\ steps' = Append(steps, "parse")
    /\ unanswered' = IF unanswered > 0 THEN unanswered - 1 ELSE 0
    /\ parsed' = parse_metadata(response_data', expected_correlation_id)
    /\ Return(parsed'.err)
    /\ UNCHANGED <<correlation_id, expected_correlation_id, response_size, requests, sends,
                   prev_result, codec_vars>>

\* read_metadata_response, from the read of response_data to its return
read_metadata_payload ==
    /\ pc = "meta_payload"
    /\ ReadExact(response_size)
    /\ response_data' = Take(stream, response_size)
    /\ steps' = Append(steps, "parse")
    /\ unanswered' = IF unanswered > 0 THEN unanswered - 1 ELSE 0
    /\ parsed' = parse_metadata(response_data', expected_correlation_id)
    /\ Return(parsed'.err)
    /\ UNCHANGED <<correlation_id, expected_correlation_id, response_size, requests, sends,
                   prev_result, codec_vars>>

\* the bytes a blocking read waits for
Needed == IF pc \in {"api_size", "meta_size"} THEN 4 ELSE response_size

\* a read_exact fails (the read timeout of 10 s, or the end of the stream): it
\* has taken the bytes that were there, and the operation returns the error
read_exact_fails ==
    /\ pc \in {"api_size", "api_payload", "meta_size", "meta_payload"}
    /\ BufLen(stream) < Needed
    /\ stream' = EmptyBuf
    /\ consumed' = Cat(consumed, stream)
    /\ steps' = IF pc \in {"api_size", "meta_size"} THEN Append(steps, "receive") ELSE steps
    /\ Return(IoError("read"))
    /\ UNCHANGED <<correlation_id, expected_correlation_id, response_size, response_data,
                   requests, sends, prev_result, parsed, unanswered, codec_vars>>

(***************************************************************************)
(* The server: any of these writes, at any time.                           *)
(***************************************************************************)
\* a response payload: correlation id, error code, and what follows them
Response(id, error_code, rest) == FromSeq(I32ToBe(id) \o I16ToBe(error_code) \o rest)

\* a correlation id no request of the client carries
ForeignId == 99

\* a well-formed response to the request with correlation id id: no error, an
\* array of one entry (api 18, versions 0 to 3) with no tagged field
WellFormed(id) == Response(id, 0, <<2, 0, 18, 0, 0, 0, 3, 0>>)

\* what the server may write: a well-formed response to any request, a response
\* with a foreign id, one with error code 2, a payload of 2 bytes, an empty
\* frame, a negative size, a frame one byte over the maximum, half a size
ServerChunks ==
    {SendFrame(WellFormed(id)) : id \in 1..MaxOps}
    \cup {SendFrame(Response(ForeignId, 0, <<1>>)),
          SendFrame(Response(1, 2, <<>>)),
          SendFrame(FromSeq(<<0, 0>>)),
          SendFrame(EmptyBuf),
          FromSeq(I32ToBe(-1)),
          SendFrame(Zeros(MaxResponseSize + 1)),
          FromSeq(<<0, 0>>)}

\* the server writes chunk, which arrives behind what it wrote before
ServerSend ==
    /\ sends < MaxServerSends
    /\ \E chunk \in ServerChunks : stream' = Cat(stream, chunk)
    /\ sends' = sends + 1
    /\ UNCHANGED <<client_vars, requests, obs_vars, codec_vars>>

Next ==
    \/ send_api_versions_request
    \/ send_metadata_request
    \/ read_api_versions_size
    \/ read_api_versions_payload
    \/ read_metadata_size
    \/ read_metadata_payload
    \/ read_exact_fails
    \/ ServerSend

Spec == Init /\ [][Next]_vars

(***************************************************************************)
(* Properties of the client and its connection.                            *)
(***************************************************************************)
\* the last operation has returned (or aborted the thread)
Returned == pc \in {"idle", "aborted"} /\ requests # <<>>

\* the last operation read a whole frame and parsed it
Parsed == Returned /\ Len(steps) = 5

LastRequest == requests[Len(requests)]

\* the correlation id in the bytes of a request frame (after the size, the api key
\* and the api version)
RequestId(frame) == I32FromBe(At(frame, 8), At(frame, 9), At(frame, 10), At(frame, 11))

\* C1: an operation returns success only if the correlation id in the response it
\* read equals the id in the request it sent, and whenever the response it read
\* carries another id it fails with CorrelationMismatch.
C1_CorrelationMatched ==
    /\ (Returned /\ result = Ok) =>
           /\ Parsed
           /\ BufLen(response_data) >= 4
           /\ ResponseId(response_data) = RequestId(LastRequest.frame)
    /\ (Parsed /\ BufLen(response_data) >= 4
           /\ ResponseId(response_data) # RequestId(LastRequest.frame)) =>
           IsCorrelationMismatch(result)

\* C1 witness: a metadata lookup failed on a foreign id after a discovery succeeded
C1_Witness ==
    /\ Returned
    /\ prev_result = Ok
    /\ LastRequest.kind = "Metadata"
    /\ ResponseId(response_data) = ForeignId
    /\ IsCorrelationMismatch(result)

\* C2: for both request kinds a size outside [1, 1 MiB] is rejected with
\* InvalidFrameSize before any payload byte is read; only sizes in [1, 1 MiB] lead
\* to a payload read.
C2_SizeRejected ==
    /\ pc \in {"api_payload", "meta_payload"} =>
           (response_size >= 1 /\ response_size <= 1048576)
    /\ (Returned /\ BufLen(consumed) >= 4
           /\ (response_size < 1 \/ response_size > 1048576)) =>
           (IsInvalidFrameSize(result) /\ BufLen(consumed) = 4)

\* C4: a payload shorter than the field being decoded (fewer than 4 bytes for the
\* correlation id) makes the operation return TruncatedInput, and no response
\* aborts the client.
C4_TruncatedReturned ==
    /\ pc # "aborted"
    /\ (Parsed /\ BufLen(response_data) < 4) => IsTruncatedInput(result)

\* C5: at most one request is outstanding: the client writes no request while the
\* response to an earlier one has not been consumed.
C5_OneOutstanding == unanswered <= 1

StepOrder == <<"allocate", "build", "send", "receive", "parse">>

\* C7: an operation runs allocate, build, send, receive, parse in this order, each
\* at most once, and stops at the first step that fails: no receive after a failed
\* send, no parse after a failed receive, no step again.
C7_StepsInOrder ==
    /\ steps = SubSeq(StepOrder, 1, Len(steps))
    /\ BufLen(consumed) <= 4 + (IF Len(steps) = 5 THEN BufLen(response_data) ELSE 0)
           \/ (Returned /\ result = IoError("read"))
    /\ (Returned /\ result = IoError("write")) => (Len(steps) = 3 /\ consumed = EmptyBuf)
    /\ (Returned /\ (result = IoError("read") \/ IsInvalidFrameSize(result))) =>
           Len(steps) = 4
    /\ Len(steps) = 5 => Returned
    /\ (Returned /\ result # IoError("write")) => LastRequest.complete

\* C7 witness: a receive failed after the size was read, and nothing was parsed
C7_Witness ==
    /\ Returned
    /\ result = IoError("read")
    /\ BufLen(consumed) > 4
    /\ Len(steps) = 4

\* C8: the k-th request of a client carries correlation id k, whether the
\* operations before it succeeded or failed: the counter is incremented once per
\* request, the ids increase strictly and no two requests share one.
C8_IdsCount ==
    /\ \A k \in 1..Len(requests) :
           requests[k].id = k /\ RequestId(requests[k].frame) = k
    /\ correlation_id = Len(requests) + 1

\* C8 witness: a second request went out after the first operation failed
C8_Witness ==
    /\ Len(requests) >= 2
    /\ prev_result.variant \in {"IoError", "ProtocolError", "InvalidResponse"}
    /\ RequestId(LastRequest.frame) = 2

(***************************************************************************)
(* Framing, there and back: a peer frames a payload the way the client     *)
(* frames its requests, and the client receives it.                        *)
(***************************************************************************)
\* the short payload lengths tried, 0 to this
MaxSmallFrame == 8

FrameLengths ==
    (0..MaxSmallFrame) \cup {MaxResponseSize - 1, MaxResponseSize, MaxResponseSize + 1}

\* b cut or padded with zero bytes to n bytes
Resize(b, n) == IF n <= BufLen(b) THEN Take(b, n) ELSE Cat(b, Zeros(n - BufLen(b)))

FramePayloads ==
    {Resize(head, n) : head \in {Response(1, 0, <<1>>), Response(ForeignId, 0, <<1>>),
                                  FromSeq(<<0, 0, 0, 1, 0, 0, 255>>)},
                       n \in FrameLengths}

\* the peer writes one frame, built as the client builds its own
PeerSendFrame ==
    /\ call.fn = "none"
    /\ \E payload \in FramePayloads :
           /\ stream' = Cat(stream, SendFrame(payload))
           /\ call' = [NoCall EXCEPT !.fn = "frame", !.data = payload]
    /\ sends' = sends + 1
    /\ UNCHANGED <<client_vars, requests, obs_vars, ret>>

NextFrame ==
    \/ send_api_versions_request
    \/ read_api_versions_size
    \/ read_api_versions_payload
    \/ read_exact_fails
    \/ PeerSendFrame

SpecFrame == Init /\ [][NextFrame]_vars

\* the last operation returned after it read the size at the head of the frame
TookFrame ==
    /\ Returned
    /\ call.fn = "frame"
    /\ BufLen(consumed) >= 4
    /\ BufLen(consumed) + BufLen(stream) = 4 + BufLen(call.data)

\* C9, as claimed: payloads of 0, 1 and 1,048,575 bytes come back from receive as
\* they were framed, and a frame of 1,048,577 bytes is rejected with
\* InvalidFrameSize.
C9_RoundTripFromZero ==
    TookFrame =>
        /\ BufLen(call.data) \in {0, 1, 1048575} =>
               (Len(steps) = 5 /\ response_data = call.data)
        /\ BufLen(call.data) = 1048577 => IsInvalidFrameSize(result)

\* C9, amended: capability-discovery receive gives back every framed payload of 1
\* to 1,048,576 bytes exactly and leaves nothing of the frame unread; frames of 0
\* and of 1,048,577 bytes are rejected with InvalidFrameSize, no payload read.
C9_RoundTrip ==
    TookFrame =>
        IF BufLen(call.data) >= 1 /\ BufLen(call.data) <= 1048576
        THEN /\ Len(steps) = 5
             /\ response_data = call.data
             /\ consumed = SendFrame(call.data)
             /\ stream = EmptyBuf
        ELSE /\ IsInvalidFrameSize(result)
             /\ BufLen(consumed) = 4
             /\ response_data = EmptyBuf

\* C9 witness: a payload of 1,048,575 bytes, with bytes that are not zero, came back
C9_Witness ==
    /\ TookFrame
    /\ BufLen(call.data) = 1048575
    /\ At(call.data, 3) = ForeignId
    /\ response_data = call.data

(***************************************************************************)
(* The varint codec on its own.                                            *)
(***************************************************************************)
\* the bytes before an encoded value, at most
MaxPrefix == 2

\* the seeds of the values encoded, 0 to this
MaxSeed == 3

\* the bytes of a buffer decoded, at most
MaxVarintLen == 6

\* the low k bits set
LowMask(k) == [i \in 1..32 |-> IF i <= k THEN 1 ELSE 0]

\* values around every power of two: seed * 2^s with the k low bits set
VarintValues ==
    {BitOr(Shl(U32(n), s), LowMask(k)) : n \in 0..MaxSeed, s \in 0..31, k \in {0, 6, 7, 8, 32}}
    \cup {LowMask(k) : k \in 0..32}

VarintBytes == {0, 15, 16, 128, 255}

\* the codec calls under check: a value encoded behind a prefix and decoded from
\* there, and a buffer of any bytes decoded from a cursor in it
InitVarint ==
    /\ InitClient
    /\ ret = NoRet
    /\ \/ \E v \in VarintValues, n \in 0..MaxPrefix :
              \E prefix \in [1..n -> {0, 255}] :
                 call = [fn |-> "round_trip", value |-> v, data |-> FromSeq(prefix),
                         offset |-> n]
       \/ \E n \in 0..MaxVarintLen, o \in 0..MaxPrefix :
              \E bytes \in [1..n -> VarintBytes] :
                 call = [fn |-> "decode", value |-> <<>>, data |-> FromSeq(bytes),
                         offset |-> o]

\* write_varint at the end of a buffer, then read_varint from where it wrote
encode_decode ==
    /\ call.fn = "round_trip"
    /\ ret = NoRet
    /\ LET buffer == write_varint(call.data, call.value)
       IN  ret' = [buffer |-> buffer, out |-> read_varint(buffer, call.offset)]
    /\ UNCHANGED <<client_vars, conn_vars, obs_vars, call>>

\* read_varint on a buffer as it came
decode ==
    /\ call.fn = "decode"
    /\ ret = NoRet
    /\ call.offset <= BufLen(call.data)
    /\ ret' = [buffer |-> call.data, out |-> read_varint(call.data, call.offset)]
    /\ UNCHANGED <<client_vars, conn_vars, obs_vars, call>>

NextVarint == encode_decode \/ decode

SpecVarint == InitVarint /\ [][NextVarint]_vars

\* the bytes write_varint added
Encoded == BufLen(ret.buffer) - BufLen(call.data)

\* C3: read_varint on the bytes write_varint wrote for v, from the cursor where
\* they start, returns v and leaves the cursor right behind them.
C3_VarintRoundTrip ==
    (call.fn = "round_trip" /\ ret # NoRet) =>
        /\ ret.out.err = Ok
        /\ ret.out.value = call.value
        /\ ret.out.offset = call.offset + Encoded
        /\ Encoded >= 1
        /\ Take(ret.buffer, call.offset) = call.data

\* C3 witness: 2^32 - 1 came back from its five bytes, written behind two others
C3_Witness ==
    /\ call.fn = "round_trip"
    /\ call.value = LowMask(32)
    /\ call.offset = 2
    /\ ret.out.value = LowMask(32)
    /\ Encoded = 5

\* every byte of the buffer has the continuation bit set
AllContinuation(data) == \A i \in 0..(BufLen(data) - 1) : At(data, i) >= 128

\* C10, as claimed: decoding a buffer of continuation bytes only fails with
\* TruncatedInput.
C10_ContinuationTruncated ==
    (call.fn = "decode" /\ ret # NoRet /\ AllContinuation(call.data)) =>
        IsTruncatedInput(ret.out.err)

\* C10, amended: decoding a buffer of continuation bytes only fails with
\* TruncatedInput when fewer than 5 bytes are left at the cursor, and with
\* VarintOverflow at the fifth byte otherwise.
C10_ContinuationFails ==
    (call.fn = "decode" /\ ret # NoRet /\ AllContinuation(call.data)) =>
        IF BufLen(call.data) - call.offset < 5
        THEN IsTruncatedInput(ret.out.err) /\ ret.out.offset = BufLen(call.data)
        ELSE IsVarintOverflow(ret.out.err) /\ ret.out.offset = call.offset + 5

\* C10 witness: four continuation bytes decoded to the end of the buffer
C10_Witness ==
    /\ call.fn = "decode"
    /\ AllContinuation(call.data)
    /\ BufLen(call.data) - call.offset = 4
    /\ IsTruncatedInput(ret.out.err)

\* the bytes left at the cursor of a decode
Left == BufLen(call.data) - call.offset

\* the first k bytes at the cursor are there and have the continuation bit set
Continues(k) ==
    Left >= k /\ \A i \in 0..(k - 1) : At(call.data, call.offset + i) >= 128

\* C11: read_varint fails with VarintOverflow exactly when the encoding at the
\* cursor goes on past 5 bytes (its first five bytes all have the continuation
\* bit set), it reads at most 5 bytes on any input, and an encoding of 5 bytes or
\* fewer that ends in a byte with the high bit clear is never an overflow.
C11_OverflowPastFive ==
    /\ (call.fn = "decode" /\ ret # NoRet) =>
           /\ IsVarintOverflow(ret.out.err) <=> Continues(5)
           /\ ret.out.offset >= call.offset
           /\ ret.out.offset - call.offset <= 5
           /\ ret.out.offset <= BufLen(call.data)
           /\ (\E k \in 1..5 : Left >= k /\ Continues(k - 1)
                                 /\ At(call.data, call.offset + k - 1) < 128) =>
                  ret.out.err = Ok
    /\ (call.fn = "round_trip" /\ ret # NoRet) => ~IsVarintOverflow(ret.out.err)

\* C11 witness: six bytes 0x80 decoded from the first, overflow at the fifth
C11_Witness ==
    /\ call.fn = "decode"
    /\ call.data = FromSeq(<<128, 128, 128, 128, 128, 128>>)
    /\ call.offset = 0
    /\ IsVarintOverflow(ret.out.err)
    /\ ret.out.offset = 5

(***************************************************************************)
(* The capability-discovery parser on responses of every shape: a peer     *)
(* frames one response, and the client receives and parses it.             *)
(***************************************************************************)
\* the entries a response carries, at most
MaxEntries == 5

\* the bytes behind the last entry of a response, at most
MaxTrailing == 6

\* the array lengths a response declares: the bytes of the varint and n, the
\* count they stand for (varint - 1, capped at 2^31 - 1, more than a payload of
\* 1 MiB holds); valid: whether read_varint accepts the bytes
ArrayLengths ==
    {[bytes |-> <<v>>, n |-> v - 1, valid |-> TRUE] : v \in 0..(MaxEntries + 1)}
    \cup {[bytes |-> <<255, 255, 255, 255, 7>>, n |-> 2147483646, valid |-> TRUE],
          [bytes |-> <<128, 128, 128, 128, 8>>, n |-> 2147483647, valid |-> TRUE],
          [bytes |-> <<129, 128, 128, 128, 8>>, n |-> 2147483647, valid |-> TRUE],
          [bytes |-> <<255, 255, 255, 255, 15>>, n |-> 2147483647, valid |-> TRUE],
          [bytes |-> <<128, 128, 128, 128, 128>>, n |-> 0, valid |-> FALSE],
          [bytes |-> <<>>, n |-> 0, valid |-> FALSE]}

\* the tagged-field section of an entry: empty, in one byte or in two
TaggedFields == {<<0>>, <<128, 0>>}

\* the i-th entry of a response: its api code tells it from the others
ApiEntry(i) == [api_key |-> 17 + i, min_version |-> i - 2, max_version |-> 255 + i]

\* the bytes of an entry and of its tagged-field section
EntryBytes(entry, tagged) ==
    I16ToBe(entry.api_key) \o I16ToBe(entry.min_version) \o I16ToBe(entry.max_version)
    \o tagged

RECURSIVE EntriesBytes(_, _)
EntriesBytes(entries, tagged) ==
    IF entries = <<>>
    THEN <<>>
    ELSE EntryBytes(Head(entries), tagged) \o EntriesBytes(Tail(entries), tagged)

\* the payload of a response of a given shape
ShapePayload(shape) ==
    Response(shape.id, shape.error_code,
             shape.length.bytes \o EntriesBytes(shape.entries, shape.tagged)
             \o [i \in 1..shape.trailing |-> 7])

\* the peer writes one response, framed as the client frames its requests
PeerSendResponse ==
    /\ call.fn = "none"
    /\ \E id \in 1..MaxOps, error_code \in {0, 2, -1}, length \in ArrayLengths,
          k \in 0..MaxEntries, tagged \in TaggedFields, trailing \in 0..MaxTrailing :
           LET shape == [id |-> id, error_code |-> error_code, length |-> length,
                         entries |-> [i \in 1..k |-> ApiEntry(i)], tagged |-> tagged,
                         trailing |-> trailing]
           IN  /\ stream' = Cat(stream, SendFrame(ShapePayload(shape)))
               /\ call' = [fn |-> "response", value |-> shape, data |-> ShapePayload(shape),
                           offset |-> 0]
    /\ sends' = sends + 1
    /\ UNCHANGED <<client_vars, requests, obs_vars, ret>>

NextParse ==
    \/ send_api_versions_request
    \/ read_api_versions_size
    \/ read_api_versions_payload
    \/ read_exact_fails
    \/ PeerSendResponse

SpecParse == Init /\ [][NextParse]_vars

\* the last operation read the response of the peer and parsed it
ParsedResponse ==
    /\ Parsed
    /\ call.fn = "response"
    /\ response_data = call.data

\* and the response carries the id of the request, and no error code
ParsedArray ==
    /\ ParsedResponse
    /\ call.value.id = LastRequest.id
    /\ call.value.error_code = 0

\* the offset behind the j-th entry of the response
EntryEnd(j) == 6 + Len(call.value.length.bytes) + j * (6 + Len(call.value.tagged))

\* C12: a capability-discovery response with the id of the request and a non-zero
\* error code fails with ServerError of that code, and the parser stops at offset
\* 6: neither the array length nor an entry behind the error code is read.
C12_ServerErrorStops ==
    (ParsedResponse /\ call.value.id = LastRequest.id /\ call.value.error_code # 0) =>
        /\ IsServerError(result, call.value.error_code)
        /\ parsed.offset = 6
        /\ parsed.apis = <<>>

\* C12 witness: error code 2 before an array of two entries, none of them read
C12_Witness ==
    /\ ParsedResponse
    /\ call.value.id = LastRequest.id
    /\ call.value.error_code = 2
    /\ call.value.length.n = 2
    /\ Len(call.value.entries) = 2
    /\ IsServerError(result, 2)
    /\ parsed.offset = 6

(***************************************************************************)
(* The request builders on correlation ids, client ids and topic lists of  *)
(* every shape.                                                            *)
(***************************************************************************)
\* the length of the long names tried
LongName == 200

\* a name of n bytes 'a'
NameOf(n) == [i \in 1..n |-> 97]

\* the values of the counter at which a request is built
Counters == {1, 7, 258, 16909060}

\* the client ids built into a request: the one of the source, "k", none, a long one
ClientIds == {ClientId, <<107>>, <<>>, NameOf(LongName + 100)}

\* the topic lists asked for: none, one, two in both orders, three, an empty
\* name, a name whose length + 1 takes two varint bytes
TopicNameLists ==
    {<<>>, <<TestTopic>>, <<NameOf(1)>>, <<NameOf(1), <<98>>>>, <<<<98>>, NameOf(1)>>,
     <<NameOf(1), TestTopic, <<98>>>>, <<<<>>>>, <<NameOf(LongName), <<98>>>>}

\* usize on a 64-bit target, as its 64 bits, least significant first
Usize(n) == Bits(n, 64)

\* the k low bits of a usize set: 2^k - 1
UsizeMask(k) == [i \in 1..64 |-> IF i <= k THEN 1 ELSE 0]

\* u + 1 on the bits of u (wrapping)
AddOne(u) ==
    [i \in DOMAIN u |-> IF \A j \in 1..(i - 1) : u[j] = 1 THEN 1 - u[i] ELSE u[i]]

\* u as u32: the low 32 bits
AsU32(u) == [i \in 1..32 |-> u[i]]

\* (topic.len() + 1) as u32, the value send_metadata_request writes before a name
topic_name_length(len) == AsU32(AddOne(len))

\* the lengths of the topic names tried, up to and past 2^32
TopicNameLengths ==
    {Usize(0), Usize(1), Usize(10), Usize(127), Usize(128), Usize(LongName),
     UsizeMask(31), AddOne(UsizeMask(31)), UsizeMask(32), AddOne(UsizeMask(32)),
     AddOne(AddOne(UsizeMask(32)))}

\* a client that has run some operations, and the arguments of the next
InitBuild ==
    /\ correlation_id \in Counters
    /\ pc = "idle"
    /\ expected_correlation_id = 0
    /\ response_size = 0
    /\ response_data = EmptyBuf
    /\ stream = EmptyBuf
    /\ requests = <<>>
    /\ sends = 0
    /\ result = None
    /\ prev_result = None
    /\ parsed = NoParse
    /\ steps = <<>>
    /\ consumed = EmptyBuf
    /\ unanswered = 0
    /\ ret = NoRet
    /\ \/ \E client_id \in ClientIds :
              call = [fn |-> "api_versions", value |-> [client_id |-> client_id],
                      data |-> EmptyBuf, offset |-> 0]
       \/ \E client_id \in ClientIds, topics \in TopicNameLists :
              call = [fn |-> "metadata", value |-> [client_id |-> client_id, topics |-> topics],
                      data |-> EmptyBuf, offset |-> 0]
       \/ \E len \in TopicNameLengths :
              call = [fn |-> "topic_name", value |-> len, data |-> EmptyBuf, offset |-> 0]

\* send_api_versions_request with the local client_id given, its writes done
build_api_versions_request ==
    /\ call.fn = "api_versions"
    /\ Begin("ApiVersions",
             api_versions_request(next_correlation_id(correlation_id).id, call.value.client_id),
             TRUE)
    /\ expected_correlation_id' = next_correlation_id(correlation_id).id
    /\ pc' = "api_size"
    /\ result' = Pending

\* send_metadata_request with the local client_id and the topics given, its writes done
build_metadata_request ==
    /\ call.fn = "metadata"
    /\ Begin("Metadata",
             metadata_request(next_correlation_id(correlation_id).id, call.value.client_id,
                              call.value.topics),
             TRUE)
    /\ expected_correlation_id' = next_correlation_id(correlation_id).id
    /\ pc' = "meta_size"
    /\ result' = Pending

\* the body of the loop of send_metadata_request up to the name, for a topic name
\* of the length given: the length field it writes; no path of it returns an error
build_topic_name ==
    /\ call.fn = "topic_name"
    /\ ret = NoRet
    /\ ret' = [buffer |-> write_varint(EmptyBuf, topic_name_length(call.value)),
               out |-> [err |-> Ok, value |-> topic_name_length(call.value), offset |-> 0]]
    /\ UNCHANGED <<client_vars, conn_vars, obs_vars, call>>

NextBuild ==
    \/ build_api_versions_request
    \/ build_metadata_request
    \/ build_topic_name
    \/ read_exact_fails

SpecBuild == InitBuild /\ [][NextBuild]_vars

\* the bytes of a buffer, in order
Bytes(b) == [i \in 1..BufLen(b) |-> At(b, i - 1)]

\* n in 2 bytes and c in 4 bytes, most significant first
Be16(n) == <<n \div 256, n % 256>>

Be32(c) == <<c \div 16777216, (c \div 65536) % 256, (c \div 256) % 256, c % 256>>

RECURSIVE VarintOf(_)
\* n in base 128, low-order group first, 0x80 on every byte but the last
VarintOf(n) == IF n < 128 THEN <<n>> ELSE <<(n % 128) + 128>> \o VarintOf(n \div 128)

\* the request frames of a kind written so far
FramesOf(kind) == {k \in 1..Len(requests) : requests[k].kind = kind}

\* C13: the capability-discovery request payload is int16 18, int16 3, int32
\* correlation id, int16 length of the client id, the client id, one zero byte,
\* big-endian; for client id "k" and correlation id 7 it is 00 12 00 03 00 00 00
\* 07 00 01 6B 00; the length prefix of the frame is the payload's byte count.
C13_ApiVersionsLayout ==
    call.fn = "api_versions" =>
        \A k \in FramesOf("ApiVersions") :
            LET s       == call.value.client_id
                payload == <<0, 18, 0, 3>> \o Be32(requests[k].id) \o Be16(Len(s)) \o s
                           \o <<0>>
                frame   == Bytes(requests[k].frame)
            IN  /\ frame = Be32(Len(payload)) \o payload
                /\ (s = <<107>> /\ requests[k].id = 7) =>
                       frame = <<0, 0, 0, 12, 0, 18, 0, 3, 0, 0, 0, 7, 0, 1, 107, 0>>

\* C13 witness: the request for client id "k" with correlation id 7 was written
C13_Witness ==
    /\ call.fn = "api_versions"
    /\ call.value.client_id = <<107>>
    /\ requests # <<>>
    /\ requests[1].id = 7
    /\ SubSeq(Bytes(requests[1].frame), 5, 16) = <<0, 18, 0, 3, 0, 0, 0, 7, 0, 1, 107, 0>>

RECURSIVE TopicsLayout(_)
\* for each topic in order, varint(name length + 1) and the name
TopicsLayout(topics) ==
    IF topics = <<>>
    THEN <<>>
    ELSE VarintOf(Len(Head(topics)) + 1) \o Head(topics) \o TopicsLayout(Tail(topics))

\* C14: the metadata-lookup request payload is int16 3, int16 9, int32 correlation
\* id, int16 client-id length, the client id, varint(topic count + 1), for each
\* topic in the order given varint(name length + 1) and the name, four zero flag
\* bytes and one zero tagged-field byte; an empty list is encoded as varint 1.
C14_MetadataLayout ==
    call.fn = "metadata" =>
        \A k \in FramesOf("Metadata") :
            LET s       == call.value.client_id
                topics  == call.value.topics
                header  == <<0, 3, 0, 9>> \o Be32(requests[k].id) \o Be16(Len(s)) \o s
                payload == header \o VarintOf(Len(topics) + 1) \o TopicsLayout(topics)
                           \o <<0, 0, 0, 0, 0>>
                frame   == Bytes(requests[k].frame)
            IN  /\ frame = Be32(Len(payload)) \o payload
                /\ topics = <<>> => frame[4 + Len(header) + 1] = 1

\* C14 witness: a request for two topics, the first with a name of 200 bytes
C14_Witness ==
    /\ call.fn = "metadata"
    /\ call.value.topics = <<NameOf(LongName), <<98>>>>
    /\ call.value.client_id = ClientId
    /\ requests # <<>>
    /\ SubSeq(Bytes(requests[1].frame), 30, 33) = <<3, 201, 1, 97>>
    /\ SubSeq(Bytes(requests[1].frame), 233, 235) = <<2, 98, 0>>

\* the failure the builder is to return for a name too long: KafkaError has no
\* such variant
IsIdentifierTooLong(r) == r.variant = "IdentifierTooLong"

\* u fits in 32 bits
FitsU32(u) == \A i \in 33..64 : u[i] = 0

\* C15: building the length field of a topic name fails with IdentifierTooLong,
\* nothing written, whenever length + 1 is not representable in the 32 bits of its
\* encoding; otherwise the field written decodes to length + 1: a length is never
\* wrapped into the field.
C15_TooLongRejected ==
    (call.fn = "topic_name" /\ ret # NoRet) =>
        IF FitsU32(AddOne(call.value))
        THEN /\ ret.out.err = Ok
             /\ read_varint(ret.buffer, 0).value = AsU32(AddOne(call.value))
        ELSE /\ IsIdentifierTooLong(ret.out.err)
             /\ ret.buffer = EmptyBuf

\* the response declares the entries it carries, all of them whole, and no more
WellFormedArray ==
    /\ call.value.length.valid
    /\ call.value.length.n = Len(call.value.entries)
    /\ call.value.trailing = 0

\* C16, as claimed: of a well-formed response that declares n entries the parser
\* decodes the n entries in wire order, the tagged-field varint of each consumed,
\* and ends with the cursor behind the n-th.
C16_AllEntries ==
    (ParsedArray /\ WellFormedArray) =>
        /\ result = Ok
        /\ parsed.apis = call.value.entries
        /\ parsed.offset = EntryEnd(call.value.length.n)

\* C16, amended: the parser decodes the first min(3, n) entries in wire order, the
\* tagged-field varint of each consumed, and ends with the cursor behind the last
\* entry it decoded.
C16_FirstThreeEntries ==
    (ParsedArray /\ WellFormedArray) =>
        /\ result = Ok
        /\ parsed.apis = SubSeq(call.value.entries, 1, Min(3, call.value.length.n))
        /\ parsed.offset = EntryEnd(Min(3, call.value.length.n))

\* C16 witness: five entries with tagged-field varints of two bytes, three decoded
C16_Witness ==
    /\ ParsedArray
    /\ WellFormedArray
    /\ call.value.length.n = 5
    /\ call.value.tagged = <<128, 0>>
    /\ result = Ok
    /\ parsed.apis = <<ApiEntry(1), ApiEntry(2), ApiEntry(3)>>
    /\ parsed.offset = 31

\* the loop is at the start of an entry it is to decode, fewer than 6 bytes left:
\* the count declared (below 2^31 - 1) and the limit of 3 are past the whole
\* entries of the response, and fewer than 6 bytes follow them
ShortOfEntry ==
    /\ call.value.length.valid
    /\ call.value.length.n < 2147483647
    /\ Len(call.value.entries) < Min(3, call.value.length.n)
    /\ call.value.trailing < 6

\* C17: when fewer than 6 bytes remain at the start of an entry the parser stops
\* and the operation succeeds with the entries decoded so far.
C17_SoftStop ==
    (ParsedArray /\ ShortOfEntry) =>
        /\ result = Ok
        /\ parsed.apis = call.value.entries
        /\ parsed.offset = EntryEnd(Len(call.value.entries))

\* C17 witness: three entries declared, one whole and 5 bytes of the second there
C17_Witness ==
    /\ ParsedArray
    /\ ShortOfEntry
    /\ call.value.length.n = 3
    /\ Len(call.value.entries) = 1
    /\ call.value.trailing = 5
    /\ result = Ok
    /\ parsed.apis = <<ApiEntry(1)>>

\* C18: an array-length varint of 0 (n = -1, the array absent) makes the parser
\* decode no entry and return success, whatever follows the varint.
C18_AbsentArray ==
    (ParsedArray /\ call.value.length.bytes = <<0>>) =>
        /\ result = Ok
        /\ parsed.apis = <<>>
        /\ parsed.offset = 7

\* C18 witness: varint 0 in front of the bytes of two entries, none decoded
C18_Witness ==
    /\ ParsedArray
    /\ call.value.length.bytes = <<0>>
    /\ Len(call.value.entries) = 2
    /\ result = Ok
    /\ parsed.apis = <<>>

\* C19: the count the parser uses is v - 1 for every u32 v in the array-length
\* position: the conversion and the decrement never overflow, and no v >= 2 in
\* front of a whole entry is taken for an absent array (the first entry is
\* decoded).
C19_CountIsVMinusOne ==
    (ParsedArray /\ call.value.length.valid /\ call.value.length.n >= 1
        /\ call.value.entries # <<>>) =>
        /\ result.variant # "panic"
        /\ parsed.apis # <<>>
        /\ Head(parsed.apis) = ApiEntry(1)

(***************************************************************************)
(* The value of a decoded varint.                                          *)
(***************************************************************************)
\* the 7-bit group of the i-th byte at the cursor of a decode, i from 1
Group(i) == At(call.data, call.offset + i - 1) % 128

\* bit j (from 1, the lowest) of the 7-bit group g
GroupBit(g, j) == (g \div (2 ^ (j - 1))) % 2

\* C20: when read_varint succeeds on k bytes, the value it returns is the base-128
\* value of those bytes: bit 7(i-1)+j of the value is bit j of the i-th group, no
\* other bit is set, and a fifth group that does not fit in the 4 bits left to
\* 32 is not accepted.
C20_MathematicalValue ==
    (call.fn = "decode" /\ ret # NoRet /\ ret.out.err = Ok) =>
        LET k == ret.out.offset - call.offset
        IN  /\ \A b \in 1..32 :
                   ret.out.value[b] =
                       IF b <= 7 * k THEN GroupBit(Group(((b - 1) \div 7) + 1), ((b - 1) % 7) + 1)
                       ELSE 0
            /\ k = 5 => Group(5) < 16

(***************************************************************************)
(* The capability-discovery parser step by step: the cursor and the        *)
(* indices read, from the first byte of a payload to the return.  The      *)
(* payload is in call.data, the locals of the parser are in ret.           *)
(***************************************************************************)
\* the tagged-field sections of the entries parsed step by step: those of
\* TaggedFields and one of five continuation bytes
CursorTagged == TaggedFields \cup {<<255, 255, 255, 255, 255>>}

\* the parser at its first statement: offset 0, nothing read
ParserStart ==
    [stage |-> "correlation_id", offset |-> 0, prev |-> 0, reads |-> {}, result |-> U32(0),
     shift |-> 0, after |-> "array", i |-> 0, n |-> 0, apis |-> <<>>, err |-> None]

\* a payload received for a request: a response of some shape, whole, cut at any
\* byte, or padded to the largest size accepted; the id expected is its own or not
InitCursor ==
    /\ InitClient
    /\ ret = ParserStart
    /\ \E error_code \in {0, 2}, length \in ArrayLengths, k \in 0..MaxEntries,
          tagged \in CursorTagged, expected \in 1..MaxOps :
           LET shape   == [id |-> 1, error_code |-> error_code, length |-> length,
                           entries |-> [i \in 1..k |-> ApiEntry(i)], tagged |-> tagged,
                           trailing |-> 0]
               payload == ShapePayload(shape)
           IN  \E m \in (1..BufLen(payload)) \cup {MaxResponseSize} :
                   call = [fn |-> "parse", value |-> expected, data |-> Resize(payload, m),
                           offset |-> 0]

\* the parser returns err, nothing more read
Finish(err) ==
    ret' = [ret EXCEPT !.stage = "done", !.err = err, !.prev = ret.offset, !.reads = {}]

\* the parser reads the bytes at offset .. offset + k - 1 and moves the cursor
\* behind them
Advance(r, k) ==
    [r EXCEPT !.prev = ret.offset, !.offset = ret.offset + k,
              !.reads = ret.offset..(ret.offset + k - 1)]

\* read_api_versions_response: the correlation id
step_correlation_id ==
    /\ call.fn = "parse"
    /\ ret.stage = "correlation_id"
    /\ IF BufLen(call.data) < 4
       THEN Finish(InvalidResponse("Response too short"))
       ELSE IF ResponseId(call.data) # call.value
       THEN ret' = Advance([ret EXCEPT !.stage = "done",
                                       !.err = ProtocolError("Correlation ID mismatch",
                                                             <<call.value, ResponseId(call.data)>>)],
                           4)
       ELSE ret' = Advance([ret EXCEPT !.stage = "error_code"], 4)
    /\ UNCHANGED <<client_vars, conn_vars, obs_vars, call>>

\* read_api_versions_response: the error code
step_error_code ==
    /\ call.fn = "parse"
    /\ ret.stage = "error_code"
    /\ LET error_code == I16FromBe(At(call.data, ret.offset), At(call.data, ret.offset + 1))
       IN  IF BufLen(call.data) < ret.offset + 2
           THEN Finish(InvalidResponse("Response too short for error code"))
           ELSE IF error_code # 0
           THEN ret' = Advance([ret EXCEPT !.stage = "done",
                                           !.err = ProtocolError("Kafka error code",
                                                                 <<error_code>>)],
                               2)
           ELSE ret' = Advance([ret EXCEPT !.stage = "array_length"], 2)
    /\ UNCHANGED <<client_vars, conn_vars, obs_vars, call>>

\* read_api_versions_response: the length check before the array length, and the
\* call of read_varint
step_array_length ==
    /\ call.fn = "parse"
    /\ ret.stage = "array_length"
    /\ IF BufLen(call.data) < ret.offset + 1
       THEN Finish(InvalidResponse("Response too short for array length"))
       ELSE ret' = [ret EXCEPT !.stage = "varint", !.after = "array", !.result = U32(0),
                               !.shift = 0, !.prev = ret.offset, !.reads = {}]
    /\ UNCHANGED <<client_vars, conn_vars, obs_vars, call>>

\* varint_at_end with the end tested one byte late
varint_at_end_late(data, offset) == offset > BufLen(data)

\* the test at the head of the loop of read_varint
varint_at_end(data, offset) == offset >= BufLen(data)

\* read_varint returns value to read_api_versions_response: as the array length
\* (as i32 - 1, in a build that checks the subtraction or not), or as the tagged
\* fields of entry i
varint_returns(r, value) ==
    IF r.after = "array"
    THEN \E checks \in BOOLEAN :
            IF AsI32(value) = -2147483647 - 1
            THEN IF checks
                 THEN ret' = [r EXCEPT !.stage = "done",
                                       !.err = Panic("attempt to subtract with overflow")]
                 ELSE ret' = [r EXCEPT !.stage = "entry", !.i = 0,
                                       !.n = Min(MaxParsedApis, 2147483647)]
            ELSE ret' = [r EXCEPT !.stage = "entry", !.i = 0,
                                  !.n = Min(MaxParsedApis, AsI32(value) - 1)]
    ELSE ret' = [r EXCEPT !.stage = "entry", !.i = r.i + 1]

\* read_varint: one turn of its loop
step_varint_byte ==
    /\ call.fn = "parse"
    /\ ret.stage = "varint"
    /\ IF varint_at_end(call.data, ret.offset)
       THEN Finish(InvalidResponse("Unexpected end of varint"))
       ELSE LET byte   == At(call.data, ret.offset)
                value  == BitOr(ret.result, Shl(U32(byte % 128), ret.shift))
                read   == Advance([ret EXCEPT !.result = value], 1)
            IN  IF (byte \div 128) % 2 = 0
                THEN varint_returns(read, value)
                ELSE IF ret.shift + 7 >= 32
                THEN ret' = [read EXCEPT !.stage = "done",
                                         !.err = ProtocolError("Varint too long", <<>>)]
                ELSE ret' = [read EXCEPT !.shift = ret.shift + 7]
    /\ UNCHANGED <<client_vars, conn_vars, obs_vars, call>>

\* read_api_versions_response: one turn of the loop over the entries, up to the
\* call of read_varint for the tagged fields; the end of the loop and the return
step_entry ==
    /\ call.fn = "parse"
    /\ ret.stage = "entry"
    /\ IF ret.i >= ret.n \/ ret.offset + 6 > BufLen(call.data)
       THEN Finish(Ok)
       ELSE LET o     == ret.offset
                entry == [api_key     |-> I16FromBe(At(call.data, o), At(call.data, o + 1)),
                          min_version |-> I16FromBe(At(call.data, o + 2), At(call.data, o + 3)),
                          max_version |-> I16FromBe(At(call.data, o + 4), At(call.data, o + 5))]
            IN  ret' = Advance([ret EXCEPT !.stage = "varint", !.after = "tagged",
                                           !.result = U32(0), !.shift = 0,
                                           !.apis = Append(ret.apis, entry)],
                               6)
    /\ UNCHANGED <<client_vars, conn_vars, obs_vars, call>>

NextCursor ==
    \/ step_correlation_id
    \/ step_error_code
    \/ step_array_length
    \/ step_varint_byte
    \/ step_entry

SpecCursor == InitCursor /\ [][NextCursor]_vars

\* C21: throughout the parsing of a capability-discovery payload the cursor never
\* decreases and stays within 0 and the payload length, and every byte read,
\* inside read_varint as well, is at an index below the payload length; the steps
\* end with the error, the cursor and the entries of parse_api_versions.
C21_CursorInBounds ==
    call.fn = "parse" =>
        /\ ret.offset >= 0
        /\ ret.offset <= BufLen(call.data)
        /\ ret.prev <= ret.offset
        /\ \A index \in ret.reads : index >= 0 /\ index < BufLen(call.data)
        /\ ret.stage = "done" =>
               \E checks \in BOOLEAN :
                   [err |-> ret.err, offset |-> ret.offset, apis |-> ret.apis]
                       = parse_api_versions(call.data, call.value, checks)

\* C21 witness: the payload ended inside the tagged-field varint of its second
\* entry, and the parser returned with the cursor at the payload length
C21_Witness ==
    /\ call.fn = "parse"
    /\ ret.stage = "done"
    /\ ret.after = "tagged"
    /\ Len(ret.apis) = 2
    /\ ret.err = InvalidResponse("Unexpected end of varint")
    /\ ret.offset = BufLen(call.data)
    /\ At(call.data, ret.offset - 1) >= 128

====
